---- MODULE Spec2Model ----
(***************************************************************************)
(* Model of package fault (injector.go): the Injector implementations      *)
(* RejectInjector, ErrorInjector, SlowInjector and the combinators         *)
(* ChainInjector and RandomInjector.                                       *)
(*                                                                         *)
(* Injectors live in a heap (injs); every call of an injector's Handler    *)
(* method allocates one closure in a second heap (handlers).  A closure    *)
(* captures the receiver i and the parameter variable next; the closure of *)
(* ChainInjector.Handler assigns to its captured next while it serves a    *)
(* request.  Every closure body ends with a tail call of next.ServeHTTP,   *)
(* a return or a panic, so a request in flight is described by the closure *)
(* it is about to enter.                                                   *)
(***************************************************************************)
EXTENDS Integers, Sequences, FiniteSets, TLC

VARIABLES
    injs,       \* heap of injector values, in order of construction
    handlers,   \* heap of closures returned by the Handler methods
    roots,      \* closures obtained by i.Handler(downstream) during wiring
    reqs,       \* requests served so far, the last one possibly in flight
    randLog,    \* per injector: seed last given to its generator, indices drawn since
    ctor,       \* result of the last constructor call
    nSetReporter,
    nSetRandSeed

vars == <<injs, handlers, roots, reqs, randLog, ctor, nSetReporter, nSetRandSeed>>

----------------------------------------------------------------------------
(* Bounds of the model *)

MaxInjectors == 3
MaxMembers == 2
MaxRoots == 1
MaxHandlers == 8
MaxRequests == 2
MaxSetReporter == 1
MaxSetRandSeed == 1
MaxCode == 600
MaxReplacements == 2
MaxServed == 3

(* Input domains *)
Codes == {404, 500, 600}
Durations == {2}
Seeds == {1, 2}
Reporters == {1, 2}

----------------------------------------------------------------------------
(* Constants of the package *)

StateStarted == 1
StateFinished == 2
StateSkipped == 3

defaultRandSeed == 1

ErrInvalidHTTPCode == "not a valid http status code"
ErrAbortHandler == "net/http: abort Handler"

ContextValueChainInjector == "chain"
ContextValueRandomInjector == "random"
ContextValueSlowInjector == "slow-applied"
ContextValueSkipped == "slow-skipped"

NoReporter == 0
NoRand == -1
Downstream == 0
NoInjector == 0

Kinds == {"chain", "random", "reject", "error", "slow"}

Name(kind) ==
    CASE kind = "chain" -> "Chain Injector"
      [] kind = "random" -> "Random Injector"
      [] kind = "reject" -> "Reject Injector"
      [] kind = "error" -> "Error Injector"
      [] kind = "slow" -> "Slow Injector"

(* http.StatusText: the canonical text of a status code, "" for a code
   without one. *)
StatusText(code) ==
    CASE code = 100 -> "Continue"
      [] code = 101 -> "Switching Protocols"
      [] code = 102 -> "Processing"
      [] code = 103 -> "Early Hints"
      [] code = 200 -> "OK"
      [] code = 201 -> "Created"
      [] code = 202 -> "Accepted"
      [] code = 203 -> "Non-Authoritative Information"
      [] code = 204 -> "No Content"
      [] code = 205 -> "Reset Content"
      [] code = 206 -> "Partial Content"
      [] code = 207 -> "Multi-Status"
      [] code = 208 -> "Already Reported"
      [] code = 226 -> "IM Used"
      [] code = 300 -> "Multiple Choices"
      [] code = 301 -> "Moved Permanently"
      [] code = 302 -> "Found"
      [] code = 303 -> "See Other"
      [] code = 304 -> "Not Modified"
      [] code = 305 -> "Use Proxy"
      [] code = 307 -> "Temporary Redirect"
      [] code = 308 -> "Permanent Redirect"
      [] code = 400 -> "Bad Request"
      [] code = 401 -> "Unauthorized"
      [] code = 402 -> "Payment Required"
      [] code = 403 -> "Forbidden"
      [] code = 404 -> "Not Found"
      [] code = 405 -> "Method Not Allowed"
      [] code = 406 -> "Not Acceptable"
      [] code = 407 -> "Proxy Authentication Required"
      [] code = 408 -> "Request Timeout"
      [] code = 409 -> "Conflict"
      [] code = 410 -> "Gone"
      [] code = 411 -> "Length Required"
      [] code = 412 -> "Precondition Failed"
      [] code = 413 -> "Request Entity Too Large"
      [] code = 414 -> "Request URI Too Long"
      [] code = 415 -> "Unsupported Media Type"
      [] code = 416 -> "Requested Range Not Satisfiable"
      [] code = 417 -> "Expectation Failed"
      [] code = 418 -> "I'm a teapot"
      [] code = 421 -> "Misdirected Request"
      [] code = 422 -> "Unprocessable Entity"
      [] code = 423 -> "Locked"
      [] code = 424 -> "Failed Dependency"
      [] code = 425 -> "Too Early"
      [] code = 426 -> "Upgrade Required"
      [] code = 428 -> "Precondition Required"
      [] code = 429 -> "Too Many Requests"
      [] code = 431 -> "Request Header Fields Too Large"
      [] code = 451 -> "Unavailable For Legal Reasons"
      [] code = 500 -> "Internal Server Error"
      [] code = 501 -> "Not Implemented"
      [] code = 502 -> "Bad Gateway"
      [] code = 503 -> "Service Unavailable"
      [] code = 504 -> "Gateway Timeout"
      [] code = 505 -> "HTTP Version Not Supported"
      [] code = 506 -> "Variant Also Negotiates"
      [] code = 507 -> "Insufficient Storage"
      [] code = 508 -> "Loop Detected"
      [] code = 510 -> "Not Extended"
      [] code = 511 -> "Network Authentication Required"
      [] OTHER -> ""

----------------------------------------------------------------------------
(* math/rand: a generator is its state; Int31 advances it. *)

RandMod == 16
RandMul == 5
RandInc == 3

NewSource(seed) == seed % RandMod

Int31(s) == (RandMul * s + RandInc) % RandMod

IsPowerOfTwo(n) == n \in {1, 2, 4, 8, 16}

IntnPanic == -1

(* rand.Intn(n): <<index, generator state afterwards>>.  It panics for
   n <= 0.  A power of two masks one value; otherwise values above the
   largest multiple of n are rejected and drawn again. *)
RECURSIVE Intn(_, _)
Intn(s, n) ==
    IF n <= 0 THEN <<IntnPanic, s>>
    ELSE LET v == Int31(s)
             max == (RandMod - 1) - (RandMod % n)
         IN  IF IsPowerOfTwo(n) THEN <<v % n, v>>
             ELSE IF v > max THEN Intn(v, n)
             ELSE <<v % n, v>>

----------------------------------------------------------------------------
(* Values *)

(* The zero value of an injector struct of the given kind. *)
ZeroInjector(kind) ==
    [kind |-> kind, isNil |-> FALSE, middlewares |-> <<>>, reporter |-> NoReporter,
     statusCode |-> 0, statusText |-> "", duration |-> 0, sleep |-> FALSE,
     rand |-> NoRand]

Ev(k, h, i, n, s, rep, tags) ==
    [k |-> k, h |-> h, inj |-> i, n |-> n, s |-> s, rep |-> rep, tags |-> tags]

NoResponse == [written |-> FALSE, code |-> 0, body |-> ""]

NoCtor == [op |-> "", code |-> 0, inj |-> NoInjector, err |-> ""]

(* reportWithMessage: hands (name, state) to the reporter, and does nothing
   when no reporter is attached.  The result is the list of events delivered. *)
reportWithMessage(rep, name, state) ==
    IF rep = NoReporter THEN <<>>
    ELSE <<Ev("report", 0, NoInjector, state, name, rep, <<>>)>>

(* updateRequestContextValue: the request with the tag added to its context. *)
updateRequestContextValue(tags, value) == Append(tags, value)

(* http.Error(w, text, code): status code, then the text and a newline. *)
httpError(text, code) == [written |-> TRUE, code |-> code, body |-> text \o "\n"]

(* i.Handler(next): every Handler method only builds a closure over the
   receiver and next. *)
HandlerClosure(i, next) == [inj |-> i, next |-> next]

----------------------------------------------------------------------------
Init ==
    /\ injs = <<>>
    /\ handlers = <<>>
    /\ roots = {}
    /\ reqs = <<>>
    /\ randLog = <<>>
    /\ ctor = NoCtor
    /\ nSetReporter = 0
    /\ nSetRandSeed = 0

Idle == \A q \in 1..Len(reqs) : reqs[q].status # "running"

(* Injectors are built during wiring, before the first handler is built. *)
Wiring == handlers = <<>> /\ Len(injs) < MaxInjectors

MemberLists ==
    UNION {[1..n -> 1..Len(injs)] : n \in 0..MaxMembers}

Construct(rec, op, code) ==
    /\ injs' = Append(injs, rec)
    /\ randLog' = Append(randLog, [seed |-> defaultRandSeed, draws |-> <<>>])
    /\ ctor' = [op |-> op, code |-> code, inj |-> Len(injs) + 1, err |-> ""]
    /\ UNCHANGED <<handlers, roots, reqs, nSetReporter, nSetRandSeed>>

(* The injector NewChainInjector(is...) returns. *)
ChainInjectorOver(is) == [ZeroInjector("chain") EXCEPT !.middlewares = is]

NewChainInjector ==
    /\ Wiring
    /\ \E is \in MemberLists :
         Construct(ChainInjectorOver(is), "NewChainInjector", 0)

(* The injector NewRandomInjector(is...) returns. *)
RandomInjectorOver(is) ==
    [ZeroInjector("random") EXCEPT
         !.rand = NewSource(defaultRandSeed),
         !.middlewares = is]

NewRandomInjector ==
    /\ Wiring
    /\ \E is \in MemberLists :
         Construct(RandomInjectorOver(is), "NewRandomInjector", 0)

NewRejectInjector ==
    /\ Wiring
    /\ Construct(ZeroInjector("reject"), "NewRejectInjector", 0)

(* NewErrorInjector accepting every code from 100 to 599. *)
NewErrorInjectorResult_Range(code) ==
    IF code < 100 \/ code > 599
    THEN [ok |-> FALSE, err |-> ErrInvalidHTTPCode, rec |-> ZeroInjector("error")]
    ELSE [ok |-> TRUE, err |-> "",
          rec |-> [ZeroInjector("error") EXCEPT
                       !.statusCode = code, !.statusText = StatusText(code)]]

(* NewErrorInjector(code): ok with the injector, or the error. *)
NewErrorInjectorResult(code) ==
    LET statusText == StatusText(code)
    IN  IF statusText = ""
        THEN [ok |-> FALSE, err |-> ErrInvalidHTTPCode, rec |-> ZeroInjector("error")]
        ELSE [ok |-> TRUE, err |-> "",
              rec |-> [ZeroInjector("error") EXCEPT
                           !.statusCode = code, !.statusText = statusText]]

NewErrorInjectorCall(code) ==
    LET res == NewErrorInjectorResult(code)
    IN  IF res.ok
        THEN Construct(res.rec, "NewErrorInjector", code)
        ELSE /\ ctor' = [op |-> "NewErrorInjector", code |-> code,
                         inj |-> NoInjector, err |-> res.err]
             /\ UNCHANGED <<injs, handlers, roots, reqs, randLog,
                            nSetReporter, nSetRandSeed>>

NewErrorInjector ==
    /\ Wiring
    /\ \E code \in Codes : NewErrorInjectorCall(code)

(* The injector NewSlowInjector(d) returns: sleep is time.Sleep. *)
SlowInjectorOf(d) == [ZeroInjector("slow") EXCEPT !.duration = d, !.sleep = TRUE]

NewSlowInjector ==
    /\ Wiring
    /\ \E d \in Durations :
         Construct(SlowInjectorOf(d), "NewSlowInjector", 0)

(* &ErrorInjector{} and &SlowInjector{}: values not built by a constructor. *)
ZeroValue ==
    /\ Wiring
    /\ \E kind \in {"error", "slow"} :
         Construct(ZeroInjector(kind), "ZeroValue", 0)

(* SetReporter keeping a reporter that is already attached. *)
Attached_KeepsFirst(i, r) ==
    IF i.reporter = NoReporter THEN [i EXCEPT !.reporter = r] ELSE i

(* The injector after SetReporter(r): i.reporter = r. *)
Attached(i, r) == [i EXCEPT !.reporter = r]

SetReporterCall(i, r) ==
    /\ injs' = [injs EXCEPT ![i] = Attached(@, r)]
    /\ nSetReporter' = nSetReporter + 1
    /\ UNCHANGED <<handlers, roots, reqs, randLog, nSetRandSeed>>

SetReporter ==
    /\ Idle
    /\ nSetReporter < MaxSetReporter
    /\ \E i \in 1..Len(injs), r \in Reporters :
         /\ SetReporterCall(i, r)
         /\ ctor' = ctor

(* SetRandSeed leaving randF bound to the generator in use. *)
Reseeded_Stale(i, s) == i

(* The injector after SetRandSeed(s): a new generator, and randF bound to it. *)
Reseeded(i, s) == [i EXCEPT !.rand = NewSource(s)]

SetRandSeed ==
    /\ Idle
    /\ nSetRandSeed < MaxSetRandSeed
    /\ \E i \in 1..Len(injs), s \in Seeds :
         /\ injs[i].kind = "random"
         /\ injs' = [injs EXCEPT ![i] = Reseeded(@, s)]
         /\ randLog' = [randLog EXCEPT ![i] = [seed |-> s, draws |-> <<>>]]
         /\ nSetRandSeed' = nSetRandSeed + 1
         /\ UNCHANGED <<handlers, roots, reqs, ctor, nSetReporter>>

(* i.Handler(downstream), called by the application while wiring. *)
(* Handler drawing an index when it is called on a RandomInjector. *)
Handler_Draws ==
    /\ Idle
    /\ reqs = <<>>
    /\ Cardinality(roots) < MaxRoots
    /\ Len(handlers) < MaxHandlers
    /\ \E i \in 1..Len(injs) :
         /\ handlers' = Append(handlers, HandlerClosure(i, Downstream))
         /\ roots' = roots \cup {Len(handlers) + 1}
         /\ injs' = [injs EXCEPT ![i].rand =
                        IF injs[i].kind = "random" /\ Len(injs[i].middlewares) > 0
                        THEN Intn(@, Len(injs[i].middlewares))[2] ELSE @]
         /\ UNCHANGED <<reqs, randLog, ctor, nSetReporter, nSetRandSeed>>

Handler ==
    /\ Idle
    /\ reqs = <<>>
    /\ Cardinality(roots) < MaxRoots
    /\ Len(handlers) < MaxHandlers
    /\ \E i \in 1..Len(injs) :
         /\ handlers' = Append(handlers, HandlerClosure(i, Downstream))
         /\ roots' = roots \cup {Len(handlers) + 1}
         /\ UNCHANGED <<injs, reqs, randLog, ctor, nSetReporter, nSetRandSeed>>

(* The server hands a request to a handler built during wiring. *)
Request(h) ==
    [root |-> h, cur |-> h, status |-> "running", tags |-> <<>>,
     resp |-> NoResponse, trace |-> <<>>,
     pc |-> "enter",           \* position inside the closure entered
     idx |-> 0,                \* idx of the loop of ChainInjector.Handler
     loc |-> 0,                \* value read from a shared variable, not yet used
     epoch |-> nSetReporter]   \* SetReporter calls made before the request

ServeHTTP ==
    /\ Idle
    /\ Len(reqs) < MaxRequests
    /\ \E h \in roots :
         /\ reqs' = Append(reqs, Request(h))
         /\ UNCHANGED <<injs, handlers, roots, randLog, ctor,
                        nSetReporter, nSetRandSeed>>

----------------------------------------------------------------------------
(* Closure bodies.  q is the request, h the closure it enters. *)

Entering(q, kind) ==
    /\ reqs[q].status = "running"
    /\ reqs[q].cur # Downstream
    /\ injs[handlers[reqs[q].cur].inj].kind = kind

(* The record of a closure being entered: the closure, its injector, the
   reporter attached to the injector at that moment and the request's tags. *)
Enter(q) ==
    Ev("enter", reqs[q].cur, handlers[reqs[q].cur].inj, 0, "",
       injs[handlers[reqs[q].cur].inj].reporter, reqs[q].tags)

(* The loop of ChainInjector.Handler running forward: the last member ends
   up outermost. *)
RECURSIVE ChainLoop_Forward(_, _, _, _)
ChainLoop_Forward(hs, middlewares, idx, next) ==
    IF idx < 0 THEN <<hs, next>>
    ELSE ChainLoop_Forward(
             Append(hs, HandlerClosure(middlewares[Len(middlewares) - idx], next)),
             middlewares, idx - 1, Len(hs) + 1)

(* The loop of ChainInjector.Handler: next = i.middlewares[idx](next) for
   idx = len-1 .. 0.  <<closure heap, value of next>> *)
RECURSIVE ChainLoop(_, _, _, _)
ChainLoop(hs, middlewares, idx, next) ==
    IF idx < 0 THEN <<hs, next>>
    ELSE ChainLoop(Append(hs, HandlerClosure(middlewares[idx + 1], next)),
                   middlewares, idx - 1, Len(hs) + 1)

(* The closure of ChainInjector.Handler reporting Started to the chain's
   reporter. *)
ChainInjector_Handler_Reports(q) ==
    /\ Entering(q, "chain")
    /\ LET r == reqs[q]
           h == r.cur
           i == injs[handlers[h].inj]
       IN  IF ~i.isNil
           THEN LET w == ChainLoop(handlers, i.middlewares,
                                   Len(i.middlewares) - 1, handlers[h].next)
                IN  /\ Len(w[1]) <= MaxHandlers
                    /\ handlers' = [w[1] EXCEPT ![h].next = w[2]]
                    /\ reqs' = [reqs EXCEPT ![q] = [r EXCEPT
                           !.tags = updateRequestContextValue(@, ContextValueChainInjector),
                           !.trace = @ \o <<Enter(q)>>
                                       \o reportWithMessage(i.reporter, Name("chain"),
                                                            StateStarted),
                           !.cur = w[2]]]
           ELSE /\ handlers' = handlers
                /\ reqs' = [reqs EXCEPT ![q] = [r EXCEPT
                       !.trace = Append(@, Enter(q)),
                       !.cur = handlers[h].next]]
    /\ UNCHANGED <<injs, roots, randLog, ctor, nSetReporter, nSetRandSeed>>

ChainInjector_Handler(q) ==
    /\ Entering(q, "chain")
    /\ LET r == reqs[q]
           h == r.cur
           i == injs[handlers[h].inj]
       IN  IF ~i.isNil
           THEN LET w == ChainLoop(handlers, i.middlewares,
                                   Len(i.middlewares) - 1, handlers[h].next)
                IN  /\ Len(w[1]) <= MaxHandlers
                    /\ handlers' = [w[1] EXCEPT ![h].next = w[2]]
                    /\ reqs' = [reqs EXCEPT ![q] = [r EXCEPT
                           !.tags = updateRequestContextValue(@, ContextValueChainInjector),
                           !.trace = Append(@, Enter(q)),
                           !.cur = w[2]]]
           ELSE /\ handlers' = handlers
                /\ reqs' = [reqs EXCEPT ![q] = [r EXCEPT
                       !.trace = Append(@, Enter(q)),
                       !.cur = handlers[h].next]]
    /\ UNCHANGED <<injs, roots, randLog, ctor, nSetReporter, nSetRandSeed>>

(* The condition without the check for an empty member list. *)
RandomDraws_NoLenCheck(i) == ~i.isNil

(* The condition under which the closure of RandomInjector.Handler draws. *)
RandomDraws(i) == ~i.isNil /\ Len(i.middlewares) > 0

(* The first member, whatever the index drawn. *)
RandomMember_First(i, idx) == i.middlewares[1]

(* i.middlewares[idx] for the index drawn. *)
RandomMember(i, idx) == i.middlewares[idx + 1]

RandomInjector_Handler(q) ==
    /\ Entering(q, "random")
    /\ LET r == reqs[q]
           h == r.cur
           id == handlers[h].inj
           i == injs[id]
       IN  IF RandomDraws(i)
           THEN LET d == Intn(i.rand, Len(i.middlewares))
                IN  IF d[1] = IntnPanic
                    THEN /\ UNCHANGED <<injs, randLog, handlers>>
                         /\ reqs' = [reqs EXCEPT ![q] = [r EXCEPT
                                !.trace = @ \o <<Enter(q),
                                                 Ev("panic", h, id, 0, "invalid argument to Intn",
                                                    NoReporter, <<>>)>>,
                                !.status = "panicked"]]
                    ELSE
                    /\ Len(handlers) < MaxHandlers
                    /\ injs' = [injs EXCEPT ![id].rand = d[2]]
                    /\ randLog' = [randLog EXCEPT ![id].draws = Append(@, d[1])]
                    /\ handlers' = Append(handlers,
                           HandlerClosure(RandomMember(i, d[1]), handlers[h].next))
                    /\ reqs' = [reqs EXCEPT ![q] = [r EXCEPT
                           !.tags = updateRequestContextValue(@, ContextValueRandomInjector),
                           !.trace = @ \o <<Enter(q),
                                            Ev("draw", h, id, d[1], "", NoReporter, <<>>)>>,
                           !.cur = Len(handlers) + 1]]
           ELSE /\ UNCHANGED <<injs, randLog, handlers>>
                /\ reqs' = [reqs EXCEPT ![q] = [r EXCEPT
                       !.trace = Append(@, Enter(q)),
                       !.cur = handlers[h].next]]
    /\ UNCHANGED <<roots, ctor, nSetReporter, nSetRandSeed>>

(* RejectInjector.Handler returning instead of panicking. *)
RejectInjector_Handler_Returns(q) ==
    /\ Entering(q, "reject")
    /\ LET r == reqs[q]
           h == r.cur
           i == injs[handlers[h].inj]
           rep == IF ~i.isNil
                  THEN reportWithMessage(i.reporter, Name("reject"), StateStarted)
                  ELSE <<>>
       IN  reqs' = [reqs EXCEPT ![q] = [r EXCEPT
               !.trace = @ \o <<Enter(q)>> \o rep,
               !.status = "returned"]]
    /\ UNCHANGED <<injs, handlers, roots, randLog, ctor, nSetReporter, nSetRandSeed>>

RejectInjector_Handler(q) ==
    /\ Entering(q, "reject")
    /\ LET r == reqs[q]
           h == r.cur
           i == injs[handlers[h].inj]
           rep == IF ~i.isNil
                  THEN reportWithMessage(i.reporter, Name("reject"), StateStarted)
                  ELSE <<>>
       IN  reqs' = [reqs EXCEPT ![q] = [r EXCEPT
               !.trace = @ \o <<Enter(q)>> \o rep
                           \o <<Ev("panic", h, handlers[h].inj, 0, ErrAbortHandler,
                                   NoReporter, <<>>)>>,
               !.status = "aborted"]]
    /\ UNCHANGED <<injs, handlers, roots, randLog, ctor, nSetReporter, nSetRandSeed>>

(* ErrorInjector.Handler without the return after http.Error. *)
ErrorInjector_Handler_NoReturn(q) ==
    /\ Entering(q, "error")
    /\ LET r == reqs[q]
           h == r.cur
           i == injs[handlers[h].inj]
           rep == IF ~i.isNil
                  THEN reportWithMessage(i.reporter, Name("error"), StateStarted)
                  ELSE <<>>
       IN  IF ~i.isNil /\ StatusText(i.statusCode) # ""
           THEN reqs' = [reqs EXCEPT ![q] = [r EXCEPT
                    !.trace = @ \o <<Enter(q)>> \o rep
                                \o <<Ev("write", h, handlers[h].inj, i.statusCode,
                                        httpError(i.statusText, i.statusCode).body,
                                        NoReporter, <<>>)>>,
                    !.resp = httpError(i.statusText, i.statusCode),
                    !.cur = handlers[h].next]]
           ELSE reqs' = [reqs EXCEPT ![q] = [r EXCEPT
                    !.trace = @ \o <<Enter(q)>> \o rep,
                    !.cur = handlers[h].next]]
    /\ UNCHANGED <<injs, handlers, roots, randLog, ctor, nSetReporter, nSetRandSeed>>

(* ErrorInjector.Handler reporting Started after the response is written. *)
ErrorInjector_Handler_ReportsLast(q) ==
    /\ Entering(q, "error")
    /\ LET r == reqs[q]
           h == r.cur
           i == injs[handlers[h].inj]
           rep == IF ~i.isNil
                  THEN reportWithMessage(i.reporter, Name("error"), StateStarted)
                  ELSE <<>>
       IN  IF ~i.isNil /\ StatusText(i.statusCode) # ""
           THEN reqs' = [reqs EXCEPT ![q] = [r EXCEPT
                    !.trace = @ \o <<Enter(q)>>
                                \o <<Ev("write", h, handlers[h].inj, i.statusCode,
                                        httpError(i.statusText, i.statusCode).body,
                                        NoReporter, <<>>)>>
                                \o rep,
                    !.resp = httpError(i.statusText, i.statusCode),
                    !.status = "returned"]]
           ELSE reqs' = [reqs EXCEPT ![q] = [r EXCEPT
                    !.trace = @ \o <<Enter(q)>> \o rep,
                    !.cur = handlers[h].next]]
    /\ UNCHANGED <<injs, handlers, roots, randLog, ctor, nSetReporter, nSetRandSeed>>

(* The closure of ErrorInjector.Handler answering only with codes from 500. *)
ErrorInjector_Handler_ServerErrorsOnly(q) ==
    /\ Entering(q, "error")
    /\ LET r == reqs[q]
           h == r.cur
           i == injs[handlers[h].inj]
           rep == IF ~i.isNil
                  THEN reportWithMessage(i.reporter, Name("error"), StateStarted)
                  ELSE <<>>
       IN  IF ~i.isNil /\ i.statusCode >= 500
           THEN reqs' = [reqs EXCEPT ![q] = [r EXCEPT
                    !.trace = @ \o <<Enter(q)>> \o rep
                                \o <<Ev("write", h, handlers[h].inj, i.statusCode,
                                        httpError(i.statusText, i.statusCode).body,
                                        NoReporter, <<>>)>>,
                    !.resp = httpError(i.statusText, i.statusCode),
                    !.status = "returned"]]
           ELSE reqs' = [reqs EXCEPT ![q] = [r EXCEPT
                    !.trace = @ \o <<Enter(q)>> \o rep,
                    !.cur = handlers[h].next]]
    /\ UNCHANGED <<injs, handlers, roots, randLog, ctor, nSetReporter, nSetRandSeed>>

ErrorInjector_Handler(q) ==
    /\ Entering(q, "error")
    /\ LET r == reqs[q]
           h == r.cur
           i == injs[handlers[h].inj]
           rep == IF ~i.isNil
                  THEN reportWithMessage(i.reporter, Name("error"), StateStarted)
                  ELSE <<>>
       IN  IF ~i.isNil /\ StatusText(i.statusCode) # ""
           THEN reqs' = [reqs EXCEPT ![q] = [r EXCEPT
                    !.trace = @ \o <<Enter(q)>> \o rep
                                \o <<Ev("write", h, handlers[h].inj, i.statusCode,
                                        httpError(i.statusText, i.statusCode).body,
                                        NoReporter, <<>>)>>,
                    !.resp = httpError(i.statusText, i.statusCode),
                    !.status = "returned"]]
           ELSE reqs' = [reqs EXCEPT ![q] = [r EXCEPT
                    !.trace = @ \o <<Enter(q)>> \o rep,
                    !.cur = handlers[h].next]]
    /\ UNCHANGED <<injs, handlers, roots, randLog, ctor, nSetReporter, nSetRandSeed>>

(* SlowInjector.Handler reporting Finished before it sleeps. *)
SlowInjector_Handler_FinishedEarly(q) ==
    /\ Entering(q, "slow")
    /\ LET r == reqs[q]
           h == r.cur
           i == injs[handlers[h].inj]
       IN  IF ~i.isNil /\ i.sleep
           THEN reqs' = [reqs EXCEPT ![q] = [r EXCEPT
                    !.trace = @ \o <<Enter(q)>>
                                \o reportWithMessage(i.reporter, Name("slow"), StateStarted)
                                \o reportWithMessage(i.reporter, Name("slow"), StateFinished)
                                \o <<Ev("sleep", h, handlers[h].inj, i.duration, "",
                                        NoReporter, <<>>)>>,
                    !.tags = updateRequestContextValue(@, ContextValueSlowInjector),
                    !.cur = handlers[h].next]]
           ELSE reqs' = [reqs EXCEPT ![q] = [r EXCEPT
                    !.trace = Append(@, Enter(q)),
                    !.tags = updateRequestContextValue(@, ContextValueSkipped),
                    !.cur = handlers[h].next]]
    /\ UNCHANGED <<injs, handlers, roots, randLog, ctor, nSetReporter, nSetRandSeed>>

(* SlowInjector.Handler reporting Skipped when it has no delay function. *)
SlowInjector_Handler_ReportsSkipped(q) ==
    /\ Entering(q, "slow")
    /\ LET r == reqs[q]
           h == r.cur
           i == injs[handlers[h].inj]
       IN  IF ~i.isNil /\ i.sleep
           THEN reqs' = [reqs EXCEPT ![q] = [r EXCEPT
                    !.trace = @ \o <<Enter(q)>>
                                \o reportWithMessage(i.reporter, Name("slow"), StateStarted)
                                \o <<Ev("sleep", h, handlers[h].inj, i.duration, "",
                                        NoReporter, <<>>)>>
                                \o reportWithMessage(i.reporter, Name("slow"), StateFinished),
                    !.tags = updateRequestContextValue(@, ContextValueSlowInjector),
                    !.cur = handlers[h].next]]
           ELSE reqs' = [reqs EXCEPT ![q] = [r EXCEPT
                    !.trace = @ \o <<Enter(q)>>
                                \o reportWithMessage(i.reporter, Name("slow"), StateSkipped),
                    !.tags = updateRequestContextValue(@, ContextValueSkipped),
                    !.cur = handlers[h].next]]
    /\ UNCHANGED <<injs, handlers, roots, randLog, ctor, nSetReporter, nSetRandSeed>>

SlowInjector_Handler(q) ==
    /\ Entering(q, "slow")
    /\ LET r == reqs[q]
           h == r.cur
           i == injs[handlers[h].inj]
       IN  IF ~i.isNil /\ i.sleep
           THEN reqs' = [reqs EXCEPT ![q] = [r EXCEPT
                    !.trace = @ \o <<Enter(q)>>
                                \o reportWithMessage(i.reporter, Name("slow"), StateStarted)
                                \o <<Ev("sleep", h, handlers[h].inj, i.duration, "",
                                        NoReporter, <<>>)>>
                                \o reportWithMessage(i.reporter, Name("slow"), StateFinished),
                    !.tags = updateRequestContextValue(@, ContextValueSlowInjector),
                    !.cur = handlers[h].next]]
           ELSE reqs' = [reqs EXCEPT ![q] = [r EXCEPT
                    !.trace = Append(@, Enter(q)),
                    !.tags = updateRequestContextValue(@, ContextValueSkipped),
                    !.cur = handlers[h].next]]
    /\ UNCHANGED <<injs, handlers, roots, randLog, ctor, nSetReporter, nSetRandSeed>>

(* The handler the application passed to Handler: it runs and returns. *)
DownstreamHandler(q) ==
    /\ reqs[q].status = "running"
    /\ reqs[q].cur = Downstream
    /\ reqs' = [reqs EXCEPT ![q] = [@ EXCEPT
           !.trace = Append(@, Ev("enter", Downstream, NoInjector, 0, "",
                                  NoReporter, reqs[q].tags)),
           !.status = "returned"]]
    /\ UNCHANGED <<injs, handlers, roots, randLog, ctor, nSetReporter, nSetRandSeed>>

Chain == \E q \in 1..Len(reqs) : ChainInjector_Handler(q)
Random == \E q \in 1..Len(reqs) : RandomInjector_Handler(q)
Reject == \E q \in 1..Len(reqs) : RejectInjector_Handler(q)
Error == \E q \in 1..Len(reqs) : ErrorInjector_Handler(q)
Slow == \E q \in 1..Len(reqs) : SlowInjector_Handler(q)
Down == \E q \in 1..Len(reqs) : DownstreamHandler(q)

Next ==
    \/ NewChainInjector
    \/ NewRandomInjector
    \/ NewRejectInjector
    \/ NewErrorInjector
    \/ NewSlowInjector
    \/ ZeroValue
    \/ SetReporter
    \/ SetRandSeed
    \/ Handler
    \/ ServeHTTP
    \/ Chain
    \/ Random
    \/ Reject
    \/ Error
    \/ Slow
    \/ Down

Spec == Init /\ [][Next]_vars

----------------------------------------------------------------------------
(* NewErrorInjector over the whole range of codes: the argument is drawn
   first, then the constructor is applied to it. *)

InitNew ==
    /\ injs = <<>>
    /\ handlers = <<>>
    /\ roots = {}
    /\ reqs = <<>>
    /\ randLog = <<>>
    /\ \E code \in 0..MaxCode :
         ctor = [op |-> "code", code |-> code, inj |-> NoInjector, err |-> ""]
    /\ nSetReporter = 0
    /\ nSetRandSeed = 0

NewErrorInjectorOfCode ==
    /\ ctor.op = "code"
    /\ NewErrorInjectorCall(ctor.code)

NextNew == NewErrorInjectorOfCode

SpecNew == InitNew /\ [][NextNew]_vars

(* Requests served concurrently.  The application is already wired: two leaf
   injectors and a ChainInjector or RandomInjector over them.  The server
   runs one goroutine per request, so the closures of ChainInjector.Handler
   and RandomInjector.Handler advance one shared-memory access at a time. *)

WiredLeaves ==
    {SlowInjectorOf(d) : d \in Durations}
        \cup {NewErrorInjectorResult(c).rec : c \in {c \in Codes : NewErrorInjectorResult(c).ok}}
        \cup {ZeroInjector("reject")}

WiredCombinators(ls) ==
    LET lists == UNION {[1..n -> 1..Len(ls)] : n \in 0..MaxMembers}
    IN  {ChainInjectorOver(is) : is \in lists}
            \cup {RandomInjectorOver(is) : is \in lists}

InitWired(leaves) ==
    /\ \E a \in leaves, b \in leaves :
         \E c \in WiredCombinators(<<a, b>>) : injs = <<a, b, c>>
    /\ handlers = <<>>
    /\ roots = {}
    /\ reqs = <<>>
    /\ randLog = [i \in 1..Len(injs) |-> [seed |-> defaultRandSeed, draws |-> <<>>]]
    /\ ctor = NoCtor
    /\ nSetReporter = 0
    /\ nSetRandSeed = 0

InitConc == InitWired(WiredLeaves)

(* The server starts a request while others are still being served. *)
ServeHTTPConcurrent ==
    /\ Len(reqs) < MaxRequests
    /\ \E h \in roots :
         /\ reqs' = Append(reqs, Request(h))
         /\ UNCHANGED <<injs, handlers, roots, randLog, ctor,
                        nSetReporter, nSetRandSeed>>

At(q, kind, pc) == Entering(q, kind) /\ reqs[q].pc = pc

(* The nil check, the tag and the initialisation of idx. *)
ChainEnter(q) ==
    /\ At(q, "chain", "enter")
    /\ LET i == injs[handlers[reqs[q].cur].inj]
       IN  reqs' = [reqs EXCEPT ![q] =
               IF ~i.isNil
               THEN [@ EXCEPT
                       !.tags = updateRequestContextValue(@, ContextValueChainInjector),
                       !.trace = Append(@, Enter(q)),
                       !.idx = Len(i.middlewares) - 1,
                       !.pc = "loop"]
               ELSE [@ EXCEPT !.trace = Append(@, Enter(q)), !.pc = "call"]]
    /\ UNCHANGED <<injs, handlers, roots, randLog, ctor, nSetReporter, nSetRandSeed>>

(* The loop test and the right-hand side i.middlewares[idx](next): the
   captured variable next is read and the member's closure is built. *)
ChainLoopRead(q) ==
    /\ At(q, "chain", "loop")
    /\ LET r == reqs[q]
           h == r.cur
           i == injs[handlers[h].inj]
       IN  IF r.idx < 0
           THEN /\ reqs' = [reqs EXCEPT ![q].pc = "call"]
                /\ handlers' = handlers
           ELSE /\ Len(handlers) < MaxHandlers
                /\ handlers' = Append(handlers,
                       HandlerClosure(i.middlewares[r.idx + 1], handlers[h].next))
                /\ reqs' = [reqs EXCEPT ![q] = [@ EXCEPT
                       !.loc = Len(handlers) + 1, !.pc = "write"]]
    /\ UNCHANGED <<injs, roots, randLog, ctor, nSetReporter, nSetRandSeed>>

(* The assignment next = ... to the captured variable, and idx--. *)
ChainLoopWrite(q) ==
    /\ At(q, "chain", "write")
    /\ handlers' = [handlers EXCEPT ![reqs[q].cur].next = reqs[q].loc]
    /\ reqs' = [reqs EXCEPT ![q] = [@ EXCEPT !.idx = @ - 1, !.pc = "loop"]]
    /\ UNCHANGED <<injs, roots, randLog, ctor, nSetReporter, nSetRandSeed>>

(* next.ServeHTTP(w, r): the captured variable is read again. *)
ChainCallNext(q) ==
    /\ At(q, "chain", "call")
    /\ reqs' = [reqs EXCEPT ![q] = [@ EXCEPT
           !.cur = handlers[reqs[q].cur].next, !.pc = "enter"]]
    /\ UNCHANGED <<injs, handlers, roots, randLog, ctor, nSetReporter, nSetRandSeed>>

(* The condition and the tag; then i.randF reads the generator's state. *)
RandomEnter(q) ==
    /\ At(q, "random", "enter")
    /\ LET r == reqs[q]
           h == r.cur
           i == injs[handlers[h].inj]
       IN  reqs' = [reqs EXCEPT ![q] =
               IF RandomDraws(i)
               THEN [@ EXCEPT
                       !.tags = updateRequestContextValue(@, ContextValueRandomInjector),
                       !.trace = Append(@, Enter(q)),
                       !.loc = i.rand,
                       !.pc = "draw"]
               ELSE [@ EXCEPT !.trace = Append(@, Enter(q)),
                              !.cur = handlers[h].next]]
    /\ UNCHANGED <<injs, handlers, roots, randLog, ctor, nSetReporter, nSetRandSeed>>

(* i.randF computes the index from the state it read and stores the state
   advanced; the member drawn is wrapped around next and called. *)
RandomDraw(q) ==
    /\ At(q, "random", "draw")
    /\ LET r == reqs[q]
           h == r.cur
           id == handlers[h].inj
           i == injs[id]
           d == Intn(r.loc, Len(i.middlewares))
       IN  /\ Len(handlers) < MaxHandlers
           /\ injs' = [injs EXCEPT ![id].rand = d[2]]
           /\ randLog' = [randLog EXCEPT ![id].draws = Append(@, d[1])]
           /\ handlers' = Append(handlers,
                  HandlerClosure(RandomMember(i, d[1]), handlers[h].next))
           /\ reqs' = [reqs EXCEPT ![q] = [r EXCEPT
                  !.trace = Append(@, Ev("draw", h, id, d[1], "", NoReporter, <<>>)),
                  !.cur = Len(handlers) + 1,
                  !.pc = "enter"]]
    /\ UNCHANGED <<roots, ctor, nSetReporter, nSetRandSeed>>

ChainStep ==
    \E q \in 1..Len(reqs) :
        ChainEnter(q) \/ ChainLoopRead(q) \/ ChainLoopWrite(q) \/ ChainCallNext(q)

RandomStep == \E q \in 1..Len(reqs) : RandomEnter(q) \/ RandomDraw(q)

NextConc ==
    \/ Handler
    \/ ServeHTTPConcurrent
    \/ ChainStep
    \/ RandomStep
    \/ Reject
    \/ Error
    \/ Slow
    \/ Down

SpecConc == InitConc /\ [][NextConc]_vars

(* Reporters attached and replaced between requests.  The application is
   wired as above; requests are served one after the other, and SetReporter
   may be called before the handler is built, after it, and between
   requests.  ctor records the last SetReporter call. *)

InitRep == InitWired(WiredLeaves)

SetReporterBetweenRequests ==
    /\ Idle
    /\ nSetReporter < MaxReplacements
    /\ \E i \in 1..Len(injs), r \in Reporters :
         /\ SetReporterCall(i, r)
         /\ ctor' = [op |-> "SetReporter", code |-> r, inj |-> i, err |-> ""]

ServeHTTPNext ==
    /\ Idle
    /\ Len(reqs) < MaxServed
    /\ \E h \in roots :
         /\ reqs' = Append(reqs, Request(h))
         /\ UNCHANGED <<injs, handlers, roots, randLog, ctor,
                        nSetReporter, nSetRandSeed>>

NextRep ==
    \/ SetReporterBetweenRequests
    \/ Handler
    \/ ServeHTTPNext
    \/ Chain
    \/ Random
    \/ Reject
    \/ Error
    \/ Slow
    \/ Down

SpecRep == InitRep /\ [][NextRep]_vars

(* Injectors not built by a constructor: the zero value of each struct and
   the nil pointer of each type, used as they are. *)

(* var i *T: a nil pointer, on which Handler can still be called. *)
NilInjector(kind) == [ZeroInjector(kind) EXCEPT !.isNil = TRUE]

Unbuilt == {ZeroInjector(kind) : kind \in Kinds} \cup {NilInjector(kind) : kind \in Kinds}

InitZero ==
    /\ \E a \in Unbuilt, b \in Unbuilt : injs = <<a, b>>
    /\ handlers = <<>>
    /\ roots = {}
    /\ reqs = <<>>
    /\ randLog = [i \in 1..Len(injs) |-> [seed |-> defaultRandSeed, draws |-> <<>>]]
    /\ ctor = NoCtor
    /\ nSetReporter = 0
    /\ nSetRandSeed = 0

NextZero ==
    \/ Handler
    \/ ServeHTTP
    \/ Chain
    \/ Random
    \/ Reject
    \/ Error
    \/ Slow
    \/ Down

SpecZero == InitZero /\ [][NextZero]_vars

TypeOK ==
    /\ Len(injs) <= MaxInjectors
    /\ Len(handlers) <= MaxHandlers
    /\ Len(reqs) <= MaxRequests
----------------------------------------------------------------------------
(* Reading a request's trace *)

Finished(q) == reqs[q].status # "running"

Trace(q) == reqs[q].trace

(* Position p of request q records the entry of a closure of an injector of
   the given kind. *)
EntersKind(q, p, kind) ==
    /\ Trace(q)[p].k = "enter"
    /\ Trace(q)[p].inj # NoInjector
    /\ injs[Trace(q)[p].inj].kind = kind

EntersDownstream(q, p) ==
    /\ Trace(q)[p].k = "enter"
    /\ Trace(q)[p].h = Downstream

DownstreamCount(q) ==
    Cardinality({p \in 1..Len(Trace(q)) : EntersDownstream(q, p)})

(* The injector answers or aborts instead of calling next. *)
ShortCircuits(i) ==
    \/ injs[i].kind = "reject"
    \/ /\ injs[i].kind = "error"
       /\ ~injs[i].isNil
       /\ StatusText(injs[i].statusCode) # ""

(* The injectors entered by request q, in order; NoInjector is downstream. *)
RECURSIVE EnteredFrom(_, _)
EnteredFrom(q, p) ==
    IF p > Len(Trace(q)) THEN <<>>
    ELSE IF Trace(q)[p].k = "enter"
         THEN <<Trace(q)[p].inj>> \o EnteredFrom(q, p + 1)
         ELSE EnteredFrom(q, p + 1)

----------------------------------------------------------------------------
(* C1, as stated: a finished request has invoked downstream exactly once if
   it entered no ErrorInjector or RejectInjector closure, and never if it
   entered one. *)
C1_AsStated ==
    \A q \in 1..Len(reqs) :
        Finished(q) =>
            DownstreamCount(q) =
                IF \E p \in 1..Len(Trace(q)) :
                       EntersKind(q, p, "error") \/ EntersKind(q, p, "reject")
                THEN 0 ELSE 1

(* C1, amended: a finished request has invoked downstream never if it
   entered the closure of a RejectInjector or of an ErrorInjector whose code
   has canonical text, and exactly once otherwise; an ErrorInjector whose
   code has no canonical text passes the request on. *)
C1_DownstreamOnceUnlessShortCircuit ==
    \A q \in 1..Len(reqs) :
        Finished(q) =>
            DownstreamCount(q) =
                IF \E p \in 1..Len(Trace(q)) :
                       /\ Trace(q)[p].k = "enter"
                       /\ Trace(q)[p].inj # NoInjector
                       /\ ShortCircuits(Trace(q)[p].inj)
                THEN 0 ELSE 1

IsCombinator(i) == injs[i].kind \in {"chain", "random"}

(* The second request to a combinator that nests another combinator has
   entered the closure of an ErrorInjector without canonical text and has
   reached downstream once. *)
C1_Witness ==
    /\ Len(reqs) = 2
    /\ Finished(2)
    /\ LET i == handlers[reqs[2].root].inj
       IN  /\ IsCombinator(i)
           /\ \E m \in 1..Len(injs[i].middlewares) :
                  /\ IsCombinator(injs[i].middlewares[m])
                  /\ Len(injs[injs[i].middlewares[m]].middlewares) > 0
    /\ \E p \in 1..Len(Trace(2)) : EntersKind(2, p, "error")
    /\ DownstreamCount(2) = 1

----------------------------------------------------------------------------
(* C2: a finished request to the closure built from a chain whose members
   are all SlowInjectors has entered the chain, then the members in the
   order given to NewChainInjector, each once, then downstream. *)
C2_ChainRunsMembersOnceInOrder ==
    \A q \in 1..Len(reqs) :
        LET i == handlers[reqs[q].root].inj
        IN  ( /\ Finished(q)
              /\ injs[i].kind = "chain"
              /\ \A m \in 1..Len(injs[i].middlewares) :
                     injs[injs[i].middlewares[m]].kind = "slow" )
            => EnteredFrom(q, 1) = <<i>> \o injs[i].middlewares \o <<NoInjector>>

----------------------------------------------------------------------------
(* C3: once a request enters the closure of a chain [A, B] whose A short-
   circuits, it enters A's closure next and nothing after it: no closure of
   B, no delay, no random draw, no downstream; and when A is an
   ErrorInjector the response carries A's status code. *)
C3_ShortCircuitSkipsRest ==
    \A q \in 1..Len(reqs) :
        \A p \in 1..Len(Trace(q)) :
            ( /\ EntersKind(q, p, "chain")
              /\ ~injs[Trace(q)[p].inj].isNil
              /\ Len(injs[Trace(q)[p].inj].middlewares) = 2
              /\ ShortCircuits(injs[Trace(q)[p].inj].middlewares[1]) )
            => LET A == injs[Trace(q)[p].inj].middlewares[1]
               IN  /\ p < Len(Trace(q)) =>
                          /\ Trace(q)[p + 1].k = "enter"
                          /\ Trace(q)[p + 1].inj = A
                   /\ \A p2 \in (p + 2)..Len(Trace(q)) :
                          Trace(q)[p2].k \notin {"enter", "sleep", "draw"}
                   /\ Finished(q) =>
                          IF injs[A].kind = "error"
                          THEN /\ reqs[q].status = "returned"
                               /\ reqs[q].resp.written
                               /\ reqs[q].resp.code = injs[A].statusCode
                          ELSE /\ reqs[q].status = "aborted"
                               /\ ~reqs[q].resp.written

(* The second request to the chain [ErrorInjector(500), SlowInjector(d)]
   was answered with 500 without a delay and without downstream. *)
C3_Witness ==
    /\ Len(reqs) = 2
    /\ Finished(2)
    /\ LET i == handlers[reqs[2].root].inj
       IN  /\ injs[i].kind = "chain"
           /\ Len(injs[i].middlewares) = 2
           /\ injs[injs[i].middlewares[1]].kind = "error"
           /\ injs[injs[i].middlewares[1]].statusCode = 500
           /\ injs[injs[i].middlewares[2]].kind = "slow"
           /\ injs[injs[i].middlewares[2]].sleep
    /\ reqs[2].resp.code = 500
    /\ DownstreamCount(2) = 0
    /\ \A p \in 1..Len(Trace(2)) : Trace(2)[p].k # "sleep"

----------------------------------------------------------------------------
(* C4: a request that enters the closure of a RandomInjector with N >= 1
   members draws one index, in 0..N-1, and enters next the closure of the
   member at that index and of no other; that closure was built over the
   RandomInjector's own next, so no further member runs. *)
C4_RandomRunsExactlyTheDrawnMember ==
    \A q \in 1..Len(reqs) :
        \A p \in 1..Len(Trace(q)) :
            ( /\ EntersKind(q, p, "random")
              /\ ~injs[Trace(q)[p].inj].isNil
              /\ Len(injs[Trace(q)[p].inj].middlewares) >= 1 )
            => LET i == Trace(q)[p].inj
                   N == Len(injs[i].middlewares)
                   T == Trace(q)
               IN  /\ p + 1 <= Len(T)
                   /\ T[p + 1].k = "draw"
                   /\ T[p + 1].inj = i
                   /\ T[p + 1].n \in 0..(N - 1)
                   /\ p + 1 = Len(T) =>
                          /\ reqs[q].status = "running"
                          /\ reqs[q].cur # Downstream
                          /\ handlers[reqs[q].cur].inj = injs[i].middlewares[T[p + 1].n + 1]
                          /\ handlers[reqs[q].cur].next = handlers[T[p].h].next
                   /\ p + 1 < Len(T) =>
                          /\ T[p + 2].k = "enter"
                          /\ T[p + 2].inj = injs[i].middlewares[T[p + 1].n + 1]

(* Two finished requests to a RandomInjector over two different members
   selected the second member once and the first member once. *)
C4_Witness ==
    /\ Len(reqs) = 2
    /\ Finished(1)
    /\ Finished(2)
    /\ LET i == handlers[reqs[2].root].inj
       IN  /\ injs[i].kind = "random"
           /\ Len(injs[i].middlewares) = 2
           /\ injs[i].middlewares[1] # injs[i].middlewares[2]
           /\ \E a, b \in 1..2 :
                  /\ Trace(a)[2].k = "draw" /\ Trace(a)[2].n = 0
                  /\ Trace(a)[3].inj = injs[i].middlewares[1]
                  /\ Trace(b)[2].k = "draw" /\ Trace(b)[2].n = 1
                  /\ Trace(b)[3].inj = injs[i].middlewares[2]

----------------------------------------------------------------------------
(* C5: a request that enters the closure of a RandomInjector without
   members goes on to the closure's next with its tags unchanged: it draws
   no index, reports nothing and does not fail. *)
C5_EmptyRandomPassesThrough ==
    \A q \in 1..Len(reqs) :
        \A p \in 1..Len(Trace(q)) :
            ( /\ EntersKind(q, p, "random")
              /\ ~injs[Trace(q)[p].inj].isNil
              /\ Len(injs[Trace(q)[p].inj].middlewares) = 0 )
            => LET T == Trace(q)
                   next == handlers[T[p].h].next
               IN  /\ randLog[T[p].inj].draws = <<>>
                   /\ reqs[q].status # "panicked"
                   /\ p = Len(T) =>
                          /\ reqs[q].status = "running"
                          /\ reqs[q].cur = next
                          /\ reqs[q].tags = T[p].tags
                   /\ p < Len(T) =>
                          /\ T[p + 1].k = "enter"
                          /\ T[p + 1].h = next
                          /\ T[p + 1].tags = T[p].tags

(* The second request to the closure of NewRandomInjector() with no
   arguments returned after invoking downstream once. *)
C5_Witness ==
    /\ Len(reqs) = 2
    /\ reqs[2].status = "returned"
    /\ LET i == handlers[reqs[2].root].inj
       IN  /\ injs[i].kind = "random"
           /\ injs[i].middlewares = <<>>
    /\ DownstreamCount(2) = 1
    /\ Len(Trace(2)) = 2

----------------------------------------------------------------------------
IsPrefix(a, b) ==
    /\ Len(a) <= Len(b)
    /\ \A k \in 1..Len(a) : a[k] = b[k]

(* C6: two RandomInjectors with the same number of members whose generators
   were last given the same seed (the default seed, or SetRandSeed) have
   drawn the same indices since, as far as both have drawn. *)
C6_SameSeedSameSelections ==
    \A a, b \in 1..Len(injs) :
        ( /\ a # b
          /\ injs[a].kind = "random"
          /\ injs[b].kind = "random"
          /\ Len(injs[a].middlewares) = Len(injs[b].middlewares)
          /\ randLog[a].seed = randLog[b].seed )
        => \/ IsPrefix(randLog[a].draws, randLog[b].draws)
           \/ IsPrefix(randLog[b].draws, randLog[a].draws)

(* Two RandomInjectors over two members each, one reseeded with the value
   of the default seed and one left at the default, have both drawn. *)
C6_Witness ==
    \E a, b \in 1..Len(injs) :
        /\ a # b
        /\ injs[a].kind = "random"
        /\ injs[b].kind = "random"
        /\ Len(injs[a].middlewares) = 2
        /\ Len(injs[b].middlewares) = 2
        /\ randLog[a].seed = randLog[b].seed
        /\ nSetRandSeed = 1
        /\ Len(randLog[a].draws) >= 1
        /\ Len(randLog[b].draws) >= 2
        /\ randLog[b].draws[1] # randLog[b].draws[2]

----------------------------------------------------------------------------
(* C7: a request that enters the closure of a RejectInjector with a
   reporter attached reports Started once to that reporter, under the name
   of the RejectInjector, and then ends with http.ErrAbortHandler: nothing
   follows, in particular no Finished event and no downstream, and no
   response has been written. *)
C7_RejectAbortsAfterStarted ==
    \A q \in 1..Len(reqs) :
        \A p \in 1..Len(Trace(q)) :
            ( /\ EntersKind(q, p, "reject")
              /\ ~injs[Trace(q)[p].inj].isNil
              /\ Trace(q)[p].rep # NoReporter )
            => LET T == Trace(q)
               IN  /\ Len(T) = p + 2
                   /\ T[p + 1] = Ev("report", 0, NoInjector, StateStarted,
                                    "Reject Injector", T[p].rep, <<>>)
                   /\ T[p + 2].k = "panic"
                   /\ T[p + 2].s = ErrAbortHandler
                   /\ reqs[q].status = "aborted"
                   /\ reqs[q].resp = NoResponse
                   /\ DownstreamCount(q) = 0

(* A request to the closure of a RejectInjector with reporter 2 attached
   was aborted. *)
C7_Witness ==
    \E q \in 1..Len(reqs) :
        /\ reqs[q].status = "aborted"
        /\ injs[handlers[reqs[q].root].inj].kind = "reject"
        /\ Trace(q)[1].rep = 2
        /\ Len(Trace(q)) = 3

----------------------------------------------------------------------------
(* C8: NewErrorInjector(code) returns an injector exactly when StatusText
   has text for code; the injector holds code and that text; otherwise it
   returns no injector and ErrInvalidHTTPCode. *)
C8_NewErrorInjectorChecksTable ==
    ctor.op = "NewErrorInjector" =>
        IF StatusText(ctor.code) # ""
        THEN /\ ctor.err = ""
             /\ ctor.inj = Len(injs)
             /\ ctor.inj # NoInjector
             /\ injs[ctor.inj].kind = "error"
             /\ injs[ctor.inj].statusCode = ctor.code
             /\ injs[ctor.inj].statusText = StatusText(ctor.code)
             /\ injs[ctor.inj].statusText # ""
        ELSE /\ ctor.err = ErrInvalidHTTPCode
             /\ ctor.inj = NoInjector
             /\ injs = <<>>

(* NewErrorInjector has refused a code between two codes it accepts. *)
C8_Witness ==
    /\ ctor.op = "NewErrorInjector"
    /\ ctor.code = 306
    /\ ctor.err = ErrInvalidHTTPCode

----------------------------------------------------------------------------
(* What follows the entry at position p of the closure of an ErrorInjector
   whose code has canonical text, the body of the response being given. *)
ErrorAnswers(q, p, body) ==
    LET T == Trace(q)
        i == injs[T[p].inj]
        k == IF T[p].rep # NoReporter THEN 1 ELSE 0
    IN  /\ Len(T) = p + k + 1
        /\ k = 1 => T[p + 1] = Ev("report", 0, NoInjector, StateStarted,
                                  "Error Injector", T[p].rep, <<>>)
        /\ T[p + k + 1].k = "write"
        /\ T[p + k + 1].n = i.statusCode
        /\ T[p + k + 1].s = body
        /\ reqs[q].status = "returned"
        /\ reqs[q].resp = [written |-> TRUE, code |-> i.statusCode, body |-> body]
        /\ DownstreamCount(q) = 0

FromNewErrorInjector(q, p) ==
    /\ EntersKind(q, p, "error")
    /\ ~injs[Trace(q)[p].inj].isNil
    /\ StatusText(injs[Trace(q)[p].inj].statusCode) # ""

(* C9, as stated: the ErrorInjector reports Started, then writes its code
   with the canonical text of the code as the body, and returns without
   invoking downstream. *)
C9_AsStated ==
    \A q \in 1..Len(reqs) :
        \A p \in 1..Len(Trace(q)) :
            FromNewErrorInjector(q, p) =>
                ErrorAnswers(q, p, StatusText(injs[Trace(q)[p].inj].statusCode))

(* C9, amended: the ErrorInjector reports Started, then writes its code
   with the canonical text of the code followed by a newline as the body,
   and returns without invoking downstream. *)
C9_ErrorWritesCodeAndTextLine ==
    \A q \in 1..Len(reqs) :
        \A p \in 1..Len(Trace(q)) :
            FromNewErrorInjector(q, p) =>
                ErrorAnswers(q, p,
                    StatusText(injs[Trace(q)[p].inj].statusCode) \o "\n")

(* A request to the closure of ErrorInjector(404) with a reporter attached
   was answered. *)
C9_Witness ==
    \E q \in 1..Len(reqs) :
        /\ reqs[q].status = "returned"
        /\ injs[handlers[reqs[q].root].inj].kind = "error"
        /\ Trace(q)[1].rep # NoReporter
        /\ reqs[q].resp.code = 404
        /\ reqs[q].resp.body = "Not Found\n"

----------------------------------------------------------------------------
(* C10: a request that enters the closure of a SlowInjector with a delay
   function reports Started, calls the delay function with the injector's
   duration, reports Finished, and enters the closure's next with the tag
   slow-applied added; nothing else happens in between. *)
C10_SlowDelaysThenContinues ==
    \A q \in 1..Len(reqs) :
        \A p \in 1..Len(Trace(q)) :
            ( /\ EntersKind(q, p, "slow")
              /\ ~injs[Trace(q)[p].inj].isNil
              /\ injs[Trace(q)[p].inj].sleep )
            => LET T == Trace(q)
                   i == injs[T[p].inj]
                   k == IF T[p].rep # NoReporter THEN 1 ELSE 0
                   end == p + 2 * k + 1
                   tagged == Append(T[p].tags, "slow-applied")
               IN  /\ Len(T) >= end
                   /\ k = 1 =>
                          /\ T[p + 1] = Ev("report", 0, NoInjector, StateStarted,
                                           "Slow Injector", T[p].rep, <<>>)
                          /\ T[p + 3] = Ev("report", 0, NoInjector, StateFinished,
                                           "Slow Injector", T[p].rep, <<>>)
                   /\ T[p + k + 1].k = "sleep"
                   /\ T[p + k + 1].n = i.duration
                   /\ Len(T) = end =>
                          /\ reqs[q].status = "running"
                          /\ reqs[q].cur = handlers[T[p].h].next
                          /\ reqs[q].tags = tagged
                   /\ Len(T) > end =>
                          /\ T[end + 1].k = "enter"
                          /\ T[end + 1].h = handlers[T[p].h].next
                          /\ T[end + 1].tags = tagged

(* A request to the closure of a SlowInjector with a reporter attached has
   reached downstream tagged slow-applied after the delay. *)
C10_Witness ==
    \E q \in 1..Len(reqs) :
        /\ reqs[q].status = "returned"
        /\ injs[handlers[reqs[q].root].inj].kind = "slow"
        /\ Trace(q)[1].rep # NoReporter
        /\ Len(Trace(q)) = 5
        /\ Trace(q)[3].k = "sleep"
        /\ Trace(q)[3].n = 2
        /\ EntersDownstream(q, 5)
        /\ Trace(q)[5].tags = <<"slow-applied">>

----------------------------------------------------------------------------
(* C11: a request that enters the closure of a SlowInjector without a delay
   function enters the closure's next right away with the tag slow-skipped
   added: no delay and no event lie in between, whether or not a reporter is
   attached. *)
C11_SlowWithoutDelaySkips ==
    \A q \in 1..Len(reqs) :
        \A p \in 1..Len(Trace(q)) :
            ( /\ EntersKind(q, p, "slow")
              /\ ~injs[Trace(q)[p].inj].isNil
              /\ ~injs[Trace(q)[p].inj].sleep )
            => LET T == Trace(q)
                   tagged == Append(T[p].tags, "slow-skipped")
               IN  /\ Len(T) = p =>
                          /\ reqs[q].status = "running"
                          /\ reqs[q].cur = handlers[T[p].h].next
                          /\ reqs[q].tags = tagged
                   /\ Len(T) > p =>
                          /\ T[p + 1].k = "enter"
                          /\ T[p + 1].h = handlers[T[p].h].next
                          /\ T[p + 1].tags = tagged

(* A request to the closure of a SlowInjector without a delay function and
   with a reporter attached has reached downstream tagged slow-skipped. *)
C11_Witness ==
    \E q \in 1..Len(reqs) :
        /\ reqs[q].status = "returned"
        /\ injs[handlers[reqs[q].root].inj].kind = "slow"
        /\ ~injs[handlers[reqs[q].root].inj].sleep
        /\ Trace(q)[1].rep # NoReporter
        /\ Len(Trace(q)) = 2
        /\ EntersDownstream(q, 2)
        /\ Trace(q)[2].tags = <<"slow-skipped">>

----------------------------------------------------------------------------
(* C12: the index generator of one RandomInjector is safe for concurrent
   draws: no reachable state has two requests between reading the state of
   the same generator and storing the state advanced. *)
Drawing(q) == At(q, "random", "draw")

C12_DrawsAreAtomic ==
    \A q1 \in 1..Len(reqs), q2 \in 1..Len(reqs) :
        (q1 # q2 /\ Drawing(q1) /\ Drawing(q2))
            => handlers[reqs[q1].cur].inj # handlers[reqs[q2].cur].inj

----------------------------------------------------------------------------
(* C13: the closure of one ChainInjector.Handler call is safe to invoke
   from several requests at once: no request is about to assign the
   closure's variable next while another request inside the same closure is
   about to read or assign it, and every request to a chain whose members
   are all SlowInjectors that has returned has entered the chain, the
   members in order, each once, and then downstream. *)
AccessesNext(q) ==
    \/ At(q, "chain", "loop") /\ reqs[q].idx >= 0
    \/ At(q, "chain", "write")
    \/ At(q, "chain", "call")

C13_ChainClosureIsReentrant ==
    /\ \A q1 \in 1..Len(reqs), q2 \in 1..Len(reqs) :
           ( /\ q1 # q2
             /\ At(q1, "chain", "write")
             /\ AccessesNext(q2) )
           => reqs[q1].cur # reqs[q2].cur
    /\ \A q \in 1..Len(reqs) :
           LET i == handlers[reqs[q].root].inj
           IN  ( /\ reqs[q].status = "returned"
                 /\ injs[i].kind = "chain"
                 /\ \A m \in 1..Len(injs[i].middlewares) :
                        injs[injs[i].middlewares[m]].kind = "slow" )
               => /\ Len(EnteredFrom(q, 1)) = Len(injs[i].middlewares) + 2
                  /\ \A m \in 1..Len(injs[i].middlewares) :
                         EnteredFrom(q, 1)[m + 1] = injs[i].middlewares[m]

----------------------------------------------------------------------------
(* C14: serving a request changes nothing a later request to the same
   handler depends on: every request that has returned from the closure of
   a chain whose members are all SlowInjectors has entered the same
   closures' injectors as the first request did, has been delayed once per
   member that delays, and has reported at most one Started and one
   Finished per member. *)
Events(q, k) == {p \in 1..Len(Trace(q)) : Trace(q)[p].k = k}

Reports(q, state) == {p \in Events(q, "report") : Trace(q)[p].n = state}

C14_LaterRequestsRunTheSameMembers ==
    \A q \in 1..Len(reqs) :
        LET i == handlers[reqs[q].root].inj
            ms == injs[i].middlewares
        IN  ( /\ reqs[q].status = "returned"
              /\ reqs[1].status = "returned"
              /\ reqs[q].root = reqs[1].root
              /\ injs[i].kind = "chain"
              /\ \A m \in 1..Len(ms) : injs[ms[m]].kind = "slow" )
            => /\ EnteredFrom(q, 1) = EnteredFrom(1, 1)
               /\ Cardinality(Events(q, "sleep"))
                      = Cardinality({m \in 1..Len(ms) : injs[ms[m]].sleep})
               /\ Cardinality(Reports(q, StateStarted)) <= Len(ms)
               /\ Cardinality(Reports(q, StateFinished)) <= Len(ms)

----------------------------------------------------------------------------
(* C15: calling Handler on an injector only builds the closure.  A step in
   which the application calls Handler, and a step in which the loop of a
   chain calls a member's Handler, adds exactly one closure over that
   injector and the handler passed, and changes no injector, no generator,
   and no request's trace, response, tags or status: no event, no call of
   downstream or of a member's closure, no draw, no delay. *)
Untouched(q) ==
    /\ reqs'[q].trace = reqs[q].trace
    /\ reqs'[q].resp = reqs[q].resp
    /\ reqs'[q].tags = reqs[q].tags
    /\ reqs'[q].status = reqs[q].status
    /\ reqs'[q].cur = reqs[q].cur

OnlyBuilds(i, next) ==
    /\ handlers' = Append(handlers, [inj |-> i, next |-> next])
    /\ injs' = injs
    /\ randLog' = randLog
    /\ Len(reqs') = Len(reqs)
    /\ \A q \in 1..Len(reqs) : Untouched(q)

HandlerCallIsPure ==
    /\ roots' # roots
           => \E i \in 1..Len(injs) : OnlyBuilds(i, Downstream)
    /\ \A q \in 1..Len(reqs) :
           ( /\ Len(reqs') = Len(reqs)
             /\ At(q, "chain", "loop")
             /\ reqs'[q].pc = "write" )
           => LET h == reqs[q].cur
              IN  OnlyBuilds(injs[handlers[h].inj].middlewares[reqs[q].idx + 1],
                             handlers[h].next)

C15_HandlerHasNoSideEffect == [][HandlerCallIsPure]_vars

(* The application has called Handler on a RandomInjector with members, no
   index has been drawn, and a request is inside the handler. *)
C15_Witness ==
    /\ \E h \in roots :
           /\ RandomDraws(injs[handlers[h].inj])
           /\ injs[handlers[h].inj].rand = NewSource(defaultRandSeed)
           /\ randLog[handlers[h].inj].draws = <<>>
    /\ \E q \in 1..Len(reqs) : Drawing(q)

----------------------------------------------------------------------------
(* C16: a ChainInjector or RandomInjector reports nothing of its own.
   Every event reported while a request is served follows the entry of the
   closure of a Reject-, Error- or SlowInjector, carries that injector's
   name and goes to the reporter attached to that injector, never to the
   combinator's; and a SetReporter call on a combinator changes no other
   injector and not the combinator's members. *)
ReportedBy(q, p, e) ==
    /\ Trace(q)[e].k = "enter"
    /\ \A e2 \in (e + 1)..(p - 1) : Trace(q)[e2].k # "enter"
    /\ Trace(q)[e].inj # NoInjector
    /\ ~IsCombinator(Trace(q)[e].inj)
    /\ Trace(q)[p].s = Name(injs[Trace(q)[e].inj].kind)
    /\ Trace(q)[p].rep = Trace(q)[e].rep
    /\ reqs[q].epoch = nSetReporter
           => Trace(q)[p].rep = injs[Trace(q)[e].inj].reporter

MembersReport ==
    \A q \in 1..Len(reqs) :
        \A p \in Events(q, "report") :
            \E e \in 1..(p - 1) : ReportedBy(q, p, e)

CombinatorReporterIsItsOwn ==
    \A i \in 1..Len(injs) :
        (IsCombinator(i) /\ injs'[i].reporter # injs[i].reporter)
            => /\ Len(injs') = Len(injs)
               /\ injs'[i].middlewares = injs[i].middlewares
               /\ \A j \in 1..Len(injs) : j # i => injs'[j] = injs[j]

C16_CombinatorsReportNothing ==
    [][MembersReport' /\ CombinatorReporterIsItsOwn]_vars

(* A request has returned through a combinator that has a reporter, and a
   member with another reporter has reported; the combinator's reporter has
   received nothing. *)
C16_Witness ==
    \E q \in 1..Len(reqs) :
        LET i == handlers[reqs[q].root].inj
        IN  /\ reqs[q].status = "returned"
            /\ reqs[q].epoch = nSetReporter
            /\ IsCombinator(i)
            /\ injs[i].reporter # NoReporter
            /\ Trace(q)[1].rep = injs[i].reporter
            /\ Events(q, "report") # {}
            /\ \A p \in Events(q, "report") : Trace(q)[p].rep # injs[i].reporter

----------------------------------------------------------------------------
(* C17: SetReporter replaces the reporter for all later requests, also to
   handlers built before the call: in a request started after the last
   SetReporter(r) call on an injector, the injector's closure sees r and
   reports every event to r.  And the reporter changes nothing else: two
   visits of the closures of one Reject-, Error- or SlowInjector have the
   same delay, response and abort and both call next or both do not,
   whatever reporter is attached; without a reporter nothing is reported. *)
RECURSIVE Visit(_, _)
Visit(q, p) ==
    IF p > Len(Trace(q)) \/ Trace(q)[p].k = "enter" THEN <<>>
    ELSE <<Trace(q)[p]>> \o Visit(q, p + 1)

IsReport(ev) == ev.k = "report"

IsEffect(ev) == ev.k # "report"

Effects(q, e) ==
    LET v == SelectSeq(Visit(q, e + 1), IsEffect)
    IN  [x \in 1..Len(v) |-> <<v[x].k, v[x].n, v[x].s>>]

(* The closure entered at e called next: the request went on to another
   closure, or is about to. *)
CallsNext(q, e) ==
    \/ e + Len(Visit(q, e + 1)) < Len(Trace(q))
    \/ reqs[q].status = "running"

EntersInjector(q, e, j) == Trace(q)[e].k = "enter" /\ Trace(q)[e].inj = j

LaterEventsGoToNewReporter ==
    ctor.op = "SetReporter" =>
        \A q \in 1..Len(reqs) :
            reqs[q].epoch = nSetReporter =>
                \A e \in 1..Len(Trace(q)) :
                    EntersInjector(q, e, ctor.inj) =>
                        /\ Trace(q)[e].rep = ctor.code
                        /\ LET v == Visit(q, e + 1)
                           IN  \A x \in 1..Len(v) :
                                   IsReport(v[x]) => v[x].rep = ctor.code

ReporterChangesNothingElse ==
    \A q1 \in 1..Len(reqs), q2 \in 1..Len(reqs) :
        \A e1 \in 1..Len(Trace(q1)), e2 \in 1..Len(Trace(q2)) :
            ( /\ Trace(q1)[e1].k = "enter"
              /\ Trace(q1)[e1].inj # NoInjector
              /\ ~IsCombinator(Trace(q1)[e1].inj)
              /\ EntersInjector(q2, e2, Trace(q1)[e1].inj) )
            => /\ Effects(q1, e1) = Effects(q2, e2)
               /\ CallsNext(q1, e1) = CallsNext(q2, e2)
               /\ Trace(q1)[e1].rep = NoReporter
                      => SelectSeq(Visit(q1, e1 + 1), IsReport) = <<>>

C17_SetReporterReplaces ==
    LaterEventsGoToNewReporter /\ ReporterChangesNothingElse

(* Three requests through a combinator: a member served the first without
   a reporter, the second with a reporter attached after the handler was
   built, and the third with the reporter that replaced it. *)
C17_Witness ==
    /\ Len(reqs) = MaxServed
    /\ \A q \in 1..Len(reqs) : Finished(q)
    /\ IsCombinator(handlers[reqs[1].root].inj)
    /\ ctor.op = "SetReporter"
    /\ ~IsCombinator(ctor.inj)
    /\ reqs[1].epoch = 0
    /\ \E e \in 1..Len(Trace(1)) :
           EntersInjector(1, e, ctor.inj) /\ Trace(1)[e].rep = NoReporter
    /\ \E e \in 1..Len(Trace(2)) :
           /\ EntersInjector(2, e, ctor.inj)
           /\ Trace(2)[e].rep \notin {NoReporter, ctor.code}
           /\ SelectSeq(Visit(2, e + 1), IsReport) # <<>>
    /\ \E e \in 1..Len(Trace(3)) :
           /\ EntersInjector(3, e, ctor.inj)
           /\ Trace(3)[e].rep = ctor.code
           /\ SelectSeq(Visit(3, e + 1), IsReport) # <<>>

----------------------------------------------------------------------------
(* C18: the closure of an ErrorInjector whose code has no canonical text
   (a zero-value ErrorInjector) reports Started if a reporter is attached,
   writes nothing and hands the request, unchanged, to next, once; a request
   to such a closure built over downstream ends with downstream invoked
   once and no response written.  An ErrorInjector returned by a successful
   NewErrorInjector has a status text and a code with canonical text, and
   the closure of an ErrorInjector with a status text always answers and
   never calls next. *)
WithoutCanonicalText(q, p) ==
    /\ EntersKind(q, p, "error")
    /\ ~injs[Trace(q)[p].inj].isNil
    /\ StatusText(injs[Trace(q)[p].inj].statusCode) = ""

FallsThrough(q, p) ==
    LET T == Trace(q)
        k == IF T[p].rep # NoReporter THEN 1 ELSE 0
        next == handlers[T[p].h].next
    IN  /\ Len(T) >= p + k
        /\ k = 1 => T[p + 1] = Ev("report", 0, NoInjector, StateStarted,
                                  "Error Injector", T[p].rep, <<>>)
        /\ Len(T) = p + k
               => /\ reqs[q].status = "running"
                  /\ reqs[q].cur = next
                  /\ reqs[q].tags = T[p].tags
                  /\ reqs[q].resp = NoResponse
        /\ Len(T) > p + k
               => /\ T[p + k + 1].k = "enter"
                  /\ T[p + k + 1].h = next
                  /\ T[p + k + 1].tags = T[p].tags
        /\ (p = 1 /\ next = Downstream /\ Finished(q))
               => /\ DownstreamCount(q) = 1
                  /\ reqs[q].resp = NoResponse
                  /\ reqs[q].status = "returned"

C18_ErrorWithoutTextFallsThrough ==
    /\ \A q \in 1..Len(reqs) :
           \A p \in 1..Len(Trace(q)) :
               /\ WithoutCanonicalText(q, p) => FallsThrough(q, p)
               /\ ( /\ EntersKind(q, p, "error")
                    /\ injs[Trace(q)[p].inj].statusText # "" )
                  => /\ Events(q, "write") \cap (p + 1)..(p + 2) # {}
                     /\ \A p2 \in (p + 1)..Len(Trace(q)) : Trace(q)[p2].k # "enter"
    /\ (ctor.op = "NewErrorInjector" /\ ctor.err = "")
           => /\ ctor.inj \in 1..Len(injs)
              /\ injs[ctor.inj].statusText # ""
              /\ StatusText(injs[ctor.inj].statusCode) # ""

(* A request to the closure of a zero-value ErrorInjector with a reporter
   has reported Started, reached downstream and returned with no response
   written. *)
C18_Witness ==
    \E q \in 1..Len(reqs) :
        /\ reqs[q].status = "returned"
        /\ WithoutCanonicalText(q, 1)
        /\ Trace(q)[1].rep # NoReporter
        /\ Len(Trace(q)) = 3
        /\ EntersDownstream(q, 3)
        /\ reqs[q].resp = NoResponse

----------------------------------------------------------------------------
(* C19: a zero-value or nil injector of every variant is a no-op: a
   finished request to the handler obtained from it has invoked downstream
   exactly once, has no response written by an injector, and has returned
   without abort or failure. *)
C19_UnbuiltInjectorIsNoOp ==
    \A q \in 1..Len(reqs) :
        (Finished(q) /\ injs[handlers[reqs[q].root].inj] \in Unbuilt)
            => /\ DownstreamCount(q) = 1
               /\ reqs[q].resp = NoResponse
               /\ reqs[q].status = "returned"

====
